---- MODULE Spec2Model ----
(***************************************************************************)
(* Model of src/gestion_tareas.py: the GestorTareas task store (a heapq     *)
(* priority queue of tasks, a set of completed names, a JSON file) driven   *)
(* by the menu loop.  heapq is modelled as CPython's C implementation       *)
(* (_heapqmodule.c), which is what `import heapq` binds.                    *)
(***************************************************************************)
EXTENDS Integers, Sequences, FiniteSets, TLC

VARIABLES
    tareas,              \* self.tareas: list of (-prioridad, datetime, tarea)
    tareas_completadas,  \* self.tareas_completadas: set of names
    archivo,             \* tareas.json: <<>> when absent, <<datos>> otherwise
    proc,                \* the process running menu(): "running" | "crashed"
    ret,                 \* the last call: [op, arg, val, err]
    hist_completadas,    \* history: names completar_tarea has been called with
    hist_agregadas       \* history: <<nombre, dependencias>> of tasks added

vars == <<tareas, tareas_completadas, archivo, proc, ret,
          hist_completadas, hist_agregadas>>

store == <<tareas, tareas_completadas, archivo>>

\* Bound on len(self.tareas); the code has none.
MaxTareas == 3

-----------------------------------------------------------------------------
(* Text and dates.  A string is a sequence of one-character strings.        *)

Digitos == <<"0", "1", "2", "3", "4", "5", "6", "7", "8", "9">>

EsDigito(c) == \E i \in 1..10 : Digitos[i] = c

ValorDigito(c) == (CHOOSE i \in 1..10 : Digitos[i] = c) - 1

RECURSIVE Campos(_, _, _)
\* s.split("-"): acc holds the finished fields, cur the field being read.
Campos(s, acc, cur) ==
    IF s = <<>> THEN Append(acc, cur)
    ELSE IF Head(s) = "-" THEN Campos(Tail(s), Append(acc, cur), <<>>)
    ELSE Campos(Tail(s), acc, Append(cur, Head(s)))

RECURSIVE Numero(_, _)
\* The value of a field of decimal digits, most significant first.
Numero(campo, n) ==
    IF campo = <<>> THEN n
    ELSE Numero(Tail(campo), 10 * n + ValorDigito(Head(campo)))

EsBisiesto(y) == (y % 4 = 0 /\ y % 100 # 0) \/ y % 400 = 0

DiasDelMes(y, m) ==
    IF m = 2 THEN (IF EsBisiesto(y) THEN 29 ELSE 28)
    ELSE IF m \in {4, 6, 9, 11} THEN 30 ELSE 31

\* datetime.strptime(s, "%Y-%m-%d"): %Y is four digits, %m and %d one or two;
\* the month and the day must exist.  ok = FALSE stands for ValueError.
\* A datetime (at midnight) is <<year, month, day>>.
strptime(s) ==
    LET fs == Campos(s, <<>>, <<>>)
        bien == /\ Len(fs) = 3
                /\ Len(fs[1]) = 4
                /\ Len(fs[2]) \in 1..2
                /\ Len(fs[3]) \in 1..2
                /\ \A i \in 1..3 : \A j \in 1..Len(fs[i]) : EsDigito(fs[i][j])
        y == Numero(fs[1], 0)
        m == Numero(fs[2], 0)
        d == Numero(fs[3], 0)
    IN  IF bien /\ y >= 1 /\ m \in 1..12 /\ d \in 1..DiasDelMes(y, m)
        THEN [ok |-> TRUE, dt |-> <<y, m, d>>]
        ELSE [ok |-> FALSE, dt |-> <<0, 0, 0>>]

RECURSIVE Relleno(_, _)
\* n written in w zero-padded decimal digits.
Relleno(n, w) ==
    IF w = 0 THEN <<>>
    ELSE Append(Relleno(n \div 10, w - 1), Digitos[(n % 10) + 1])

\* datetime.strftime("%Y-%m-%d")
strftime(dt) ==
    Relleno(dt[1], 4) \o <<"-">> \o Relleno(dt[2], 2) \o <<"-">> \o Relleno(dt[3], 2)

Texto(a, m, d) == a \o <<"-">> \o m \o <<"-">> \o d

F0105 == Texto(<<"2","0","2","5">>, <<"0","1">>, <<"0","5">>)
F0110 == Texto(<<"2","0","2","5">>, <<"0","1">>, <<"1","0">>)
F15   == Texto(<<"2","0","2","5">>, <<"1">>, <<"5">>)
F1340 == Texto(<<"2","0","2","4">>, <<"1","3">>, <<"4","0">>)
F0230 == Texto(<<"2","0","2","5">>, <<"0","2">>, <<"3","0">>)

\* The date texts agregar_tarea is called with.
FechasEntrada == {F0105, F0110, F15, F1340, F0230}

\* Every date text the program meets: the inputs and what strftime writes.
FechasTexto ==
    FechasEntrada \cup {strftime(strptime(s).dt) : s \in {x \in FechasEntrada : strptime(x).ok}}

\* strptime and strftime on the texts and dates above, evaluated once.
strptime_de == [s \in FechasTexto |-> strptime(s)]

strftime_de == [dt \in {strptime(s).dt : s \in FechasTexto} |-> strftime(dt)]

\* datetime < datetime
FechaMenor(a, b) ==
    \/ a[1] < b[1]
    \/ a[1] = b[1] /\ a[2] < b[2]
    \/ a[1] = b[1] /\ a[2] = b[2] /\ a[3] < b[3]

-----------------------------------------------------------------------------
(* heapq on a list of tuples (-prioridad, datetime, tarea).                 *)

\* tuple < tuple, as Python compares them: the first position where the two
\* differ decides; dicts differ but are not ordered, so a tie on the first
\* two positions with different dicts raises TypeError.
TuplaMenor(a, b) ==
    IF a[1] # b[1] THEN (IF a[1] < b[1] THEN "lt" ELSE "ge")
    ELSE IF a[2] # b[2] THEN (IF FechaMenor(a[2], b[2]) THEN "lt" ELSE "ge")
    ELSE IF a[3] # b[3] THEN "TypeError"
    ELSE "ge"

\* Python's 0-based list indices on a 1-based sequence.
Intercambia(h, i, j) == [h EXCEPT ![i + 1] = h[j + 1], ![j + 1] = h[i + 1]]

RECURSIVE siftdown(_, _, _)
\* _heapq siftdown: the item at pos moves towards startpos while it is less
\* than its parent; a failed comparison leaves the list as it is by then.
siftdown(h, startpos, pos) ==
    IF pos > startpos
    THEN LET parentpos == (pos - 1) \div 2
             cmp == TuplaMenor(h[pos + 1], h[parentpos + 1])
         IN  IF cmp = "TypeError" THEN [heap |-> h, err |-> TRUE]
             ELSE IF cmp = "ge" THEN [heap |-> h, err |-> FALSE]
             ELSE siftdown(Intercambia(h, pos, parentpos), startpos, parentpos)
    ELSE [heap |-> h, err |-> FALSE]

RECURSIVE siftup_baja(_, _)
\* _heapq siftup, first loop: the smaller child moves up until pos is a leaf.
siftup_baja(h, pos) ==
    LET endpos == Len(h)
        limit == endpos \div 2
        izq == 2 * pos + 1
    IN  IF pos < limit
        THEN IF izq + 1 < endpos
             THEN LET cmp == TuplaMenor(h[izq + 1], h[izq + 2])
                      childpos == IF cmp = "lt" THEN izq ELSE izq + 1
                  IN  IF cmp = "TypeError" THEN [heap |-> h, pos |-> pos, err |-> TRUE]
                      ELSE siftup_baja(Intercambia(h, childpos, pos), childpos)
             ELSE siftup_baja(Intercambia(h, izq, pos), izq)
        ELSE [heap |-> h, pos |-> pos, err |-> FALSE]

\* _heapq siftup: bubble down to a leaf, then sift that leaf's item up.
siftup(h, pos) ==
    LET r == siftup_baja(h, pos)
    IN  IF r.err THEN [heap |-> r.heap, err |-> TRUE]
        ELSE siftdown(r.heap, pos, r.pos)

\* heapq.heappush: append, then siftdown from the end.
heappush(h, item) == siftdown(Append(h, item), 0, Len(h))

\* heapq.heappop: the last item replaces the first, then siftup from 0.
heappop(h) ==
    LET n == Len(h)
        lastelt == h[n]
        corto == SubSeq(h, 1, n - 1)
    IN  IF n = 1 THEN [heap |-> corto, err |-> FALSE]
        ELSE siftup([corto EXCEPT ![1] = lastelt], 0)

-----------------------------------------------------------------------------
(* The store's methods, as functions of the fields they read.               *)

\* guardar_datos writing the heap key as it is, without negating it back.
guardar_datos_sin_negar(ts, comp) ==
    << [tareas |-> [i \in 1..Len(ts) |->
                       [prioridad |-> ts[i][1],
                        fecha_vencimiento |-> ts[i][3].fecha_vencimiento,
                        nombre |-> ts[i][3].nombre,
                        dependencias |-> ts[i][3].dependencias]],
        completadas |-> comp] >>

\* guardar_datos: the file's content after json.dump.  "completadas" is
\* list(set): its order is arbitrary and cargar_datos makes a set of it again.
guardar_datos(ts, comp) ==
    << [tareas |-> [i \in 1..Len(ts) |->
                       [prioridad |-> -(ts[i][1]),
                        fecha_vencimiento |-> ts[i][3].fecha_vencimiento,
                        nombre |-> ts[i][3].nombre,
                        dependencias |-> ts[i][3].dependencias]],
        completadas |-> comp] >>

\* cargar_datos that restores the task list and forgets "completadas".
cargar_datos_sin_completadas(arch) ==
    IF arch = <<>> THEN [tareas |-> <<>>, completadas |-> {}]
    ELSE [tareas |-> [i \in 1..Len(arch[1].tareas) |->
                         << -(arch[1].tareas[i].prioridad),
                            strptime_de[arch[1].tareas[i].fecha_vencimiento].dt,
                            arch[1].tareas[i] >>],
          completadas |-> {}]

\* cargar_datos: the two fields after loading; the list is taken in file
\* order, without heapify.  An absent file (FileNotFoundError) gives both empty.
cargar_datos(arch) ==
    IF arch = <<>> THEN [tareas |-> <<>>, completadas |-> {}]
    ELSE LET datos == arch[1]
         IN  [tareas |-> [i \in 1..Len(datos.tareas) |->
                             << -(datos.tareas[i].prioridad),
                                strptime_de[datos.tareas[i].fecha_vencimiento].dt,
                                datos.tareas[i] >>],
              completadas |-> datos.completadas]

\* agregar_tarea that checks the type of prioridad and not its sign.
agregar_tarea_sin_signo(ts, comp, arch, nombre, prioridad, fecha_vencimiento, dependencias) ==
    IF prioridad.tipo # "int"
    THEN [tareas |-> ts, archivo |-> arch, err |-> "ValueError"]
    ELSE LET f == strptime_de[fecha_vencimiento]
             tarea == [nombre |-> nombre,
                       prioridad |-> prioridad.v,
                       fecha_vencimiento |-> strftime_de[f.dt],
                       dependencias |-> dependencias]
             r == heappush(ts, << -(prioridad.v), f.dt, tarea >>)
         IN  IF ~f.ok THEN [tareas |-> ts, archivo |-> arch, err |-> "ValueError"]
             ELSE IF r.err THEN [tareas |-> r.heap, archivo |-> arch, err |-> "TypeError"]
             ELSE [tareas |-> r.heap, archivo |-> guardar_datos(r.heap, comp), err |-> ""]

\* agregar_tarea that pushes the priority itself as the heap key.
agregar_tarea_sin_negar(ts, comp, arch, nombre, prioridad, fecha_vencimiento, dependencias) ==
    IF prioridad.tipo # "int" \/ prioridad.v < 0
    THEN [tareas |-> ts, archivo |-> arch, err |-> "ValueError"]
    ELSE LET f == strptime_de[fecha_vencimiento]
             tarea == [nombre |-> nombre,
                       prioridad |-> prioridad.v,
                       fecha_vencimiento |-> strftime_de[f.dt],
                       dependencias |-> dependencias]
             r == heappush(ts, << prioridad.v, f.dt, tarea >>)
         IN  IF ~f.ok THEN [tareas |-> ts, archivo |-> arch, err |-> "ValueError"]
             ELSE IF r.err THEN [tareas |-> r.heap, archivo |-> arch, err |-> "TypeError"]
             ELSE [tareas |-> r.heap, archivo |-> guardar_datos(r.heap, comp), err |-> ""]

\* agregar_tarea: the list, the file and the exception raised ("" for none).
\* prioridad is [tipo, v]: tipo is the Python type of the argument.
agregar_tarea(ts, comp, arch, nombre, prioridad, fecha_vencimiento, dependencias) ==
    IF prioridad.tipo # "int" \/ prioridad.v < 0
    THEN [tareas |-> ts, archivo |-> arch, err |-> "ValueError"]
    ELSE LET f == strptime_de[fecha_vencimiento]
             tarea == [nombre |-> nombre,
                       prioridad |-> prioridad.v,
                       fecha_vencimiento |-> strftime_de[f.dt],
                       dependencias |-> dependencias]
             r == heappush(ts, << -(prioridad.v), f.dt, tarea >>)
         IN  IF ~f.ok THEN [tareas |-> ts, archivo |-> arch, err |-> "ValueError"]
             ELSE IF r.err THEN [tareas |-> r.heap, archivo |-> arch, err |-> "TypeError"]
             ELSE [tareas |-> r.heap, archivo |-> guardar_datos(r.heap, comp), err |-> ""]

\* The list comprehension without its filter on completed names.
tareas_pendientes_sin_filtro(ts, comp) ==
    [i \in 1..Len(ts) |-> ts[i][3]]

\* The list comprehension of listar_tareas: the tarea of every tuple whose
\* name is not completed, in list order.
tareas_pendientes(ts, comp) ==
    LET F[i \in 0..Len(ts)] ==
            IF i = 0 THEN <<>>
            ELSE IF ts[i][3].nombre \notin comp THEN Append(F[i - 1], ts[i][3])
            ELSE F[i - 1]
    IN  F[Len(ts)]

\* The priority key without reverse=True.
Delante_ascendente(ordenar_por, x, y) ==
    IF ordenar_por = "fecha"
    THEN FechaMenor(strptime_de[x.fecha_vencimiento].dt, strptime_de[y.fecha_vencimiento].dt)
    ELSE x.prioridad < y.prioridad

\* The date key with the comparison turned round: latest first.
Delante_fecha_descendente(ordenar_por, x, y) ==
    IF ordenar_por = "fecha"
    THEN FechaMenor(strptime_de[y.fecha_vencimiento].dt, strptime_de[x.fecha_vencimiento].dt)
    ELSE x.prioridad > y.prioridad

\* x goes before y under sorted()'s key.
Delante(ordenar_por, x, y) ==
    IF ordenar_por = "fecha"
    THEN FechaMenor(strptime_de[x.fecha_vencimiento].dt, strptime_de[y.fecha_vencimiento].dt)
    ELSE x.prioridad > y.prioridad

RECURSIVE Inserta(_, _, _)
\* x into the sorted list l, after every element it does not go before.
Inserta(ordenar_por, l, x) ==
    IF l = <<>> THEN <<x>>
    ELSE IF Delante(ordenar_por, x, Head(l)) THEN <<x>> \o l
    ELSE <<Head(l)>> \o Inserta(ordenar_por, Tail(l), x)

\* sorted(l, key=...): stable, also with reverse=True.
sorted(ordenar_por, l) ==
    LET F[i \in 0..Len(l)] ==
            IF i = 0 THEN <<>> ELSE Inserta(ordenar_por, F[i - 1], l[i])
    IN  F[Len(l)]

\* listar_tareas that falls back to the priority order on an unknown key.
listar_tareas_por_defecto(ts, comp, ordenar_por) ==
    IF ordenar_por = "fecha"
    THEN [val |-> sorted("fecha", tareas_pendientes(ts, comp)), err |-> ""]
    ELSE [val |-> sorted("prioridad", tareas_pendientes(ts, comp)), err |-> ""]

\* listar_tareas: the list returned and the exception raised.
listar_tareas(ts, comp, ordenar_por) ==
    IF ordenar_por \in {"fecha", "prioridad"}
    THEN [val |-> sorted(ordenar_por, tareas_pendientes(ts, comp)), err |-> ""]
    ELSE [val |-> <<>>, err |-> "ValueError"]

\* completar_tarea that adds the name and does not persist.
completar_tarea_sin_guardar(ts, comp, arch, nombre) ==
    IF nombre \in comp
    THEN [completadas |-> comp, archivo |-> arch, val |-> "ya_completada"]
    ELSE [completadas |-> comp \cup {nombre}, archivo |-> arch, val |-> "completada"]

\* completar_tarea that persists on the already-completed branch too.
completar_tarea_guarda_siempre(ts, comp, arch, nombre) ==
    IF nombre \in comp
    THEN [completadas |-> comp, archivo |-> guardar_datos(ts, comp), val |-> "ya_completada"]
    ELSE [completadas |-> comp \cup {nombre},
          archivo |-> guardar_datos(ts, comp \cup {nombre}),
          val |-> "completada"]

\* completar_tarea that persists pending without the tasks of that name.
completar_tarea_borra(ts, comp, arch, nombre) ==
    IF nombre \in comp
    THEN [completadas |-> comp, archivo |-> arch, val |-> "ya_completada"]
    ELSE [completadas |-> comp \cup {nombre},
          archivo |-> guardar_datos(SelectSeq(ts, LAMBDA e : e[3].nombre # nombre),
                                    comp \cup {nombre}),
          val |-> "completada"]

\* completar_tarea: the set, the file, and what the call did.
completar_tarea(ts, comp, arch, nombre) ==
    IF nombre \in comp
    THEN [completadas |-> comp, archivo |-> arch, val |-> "ya_completada"]
    ELSE [completadas |-> comp \cup {nombre},
          archivo |-> guardar_datos(ts, comp \cup {nombre}),
          val |-> "completada"]

RECURSIVE obtener_siguiente_tarea_extrae(_, _)
\* obtener_siguiente_tarea that pops the task it returns.
obtener_siguiente_tarea_extrae(ts, comp) ==
    IF ts = <<>> THEN [tareas |-> ts, val |-> <<>>, err |-> ""]
    ELSE LET r == heappop(ts)
         IN  IF r.err THEN [tareas |-> r.heap, val |-> <<>>, err |-> "TypeError"]
             ELSE IF ts[1][3].nombre \notin comp
             THEN [tareas |-> r.heap, val |-> <<ts[1][3]>>, err |-> ""]
             ELSE obtener_siguiente_tarea_extrae(r.heap, comp)

RECURSIVE obtener_siguiente_tarea(_, _)
\* obtener_siguiente_tarea whose scan stops after one removal.
obtener_siguiente_tarea_una_poda(ts, comp) ==
    IF ts = <<>> THEN [tareas |-> ts, val |-> <<>>, err |-> ""]
    ELSE IF ts[1][3].nombre \notin comp
    THEN [tareas |-> ts, val |-> <<ts[1][3]>>, err |-> ""]
    ELSE LET r == heappop(ts)
         IN  IF r.err THEN [tareas |-> r.heap, val |-> <<>>, err |-> "TypeError"]
             ELSE IF r.heap # <<>> /\ r.heap[1][3].nombre \notin comp
             THEN [tareas |-> r.heap, val |-> <<r.heap[1][3]>>, err |-> ""]
             ELSE [tareas |-> r.heap, val |-> <<>>, err |-> ""]

\* obtener_siguiente_tarea: the list afterwards, the value returned (<<>> for
\* None, <<tarea>> otherwise) and the exception raised.
obtener_siguiente_tarea(ts, comp) ==
    IF ts = <<>> THEN [tareas |-> ts, val |-> <<>>, err |-> ""]
    ELSE IF ts[1][3].nombre \notin comp
    THEN [tareas |-> ts, val |-> <<ts[1][3]>>, err |-> ""]
    ELSE LET r == heappop(ts)
         IN  IF r.err THEN [tareas |-> r.heap, val |-> <<>>, err |-> "TypeError"]
             ELSE obtener_siguiente_tarea(r.heap, comp)

\* The inner loop returning True as soon as one dependency is completed.
dependencias_completadas_primera(deps, comp) ==
    IF deps = <<>> THEN TRUE
    ELSE Head(deps) \in comp

RECURSIVE dependencias_completadas(_, _)
\* The inner loop of es_ejecutable: False at the first unmet dependency.
dependencias_completadas(deps, comp) ==
    IF deps = <<>> THEN TRUE
    ELSE IF Head(deps) \notin comp THEN FALSE
    ELSE dependencias_completadas(Tail(deps), comp)

RECURSIVE es_ejecutable_filtrada(_, _, _)
\* es_ejecutable that looks only at entries whose own name is not completed.
es_ejecutable_filtrada(ts, comp, nombre) ==
    IF ts = <<>> THEN FALSE
    ELSE IF Head(ts)[3].nombre = nombre /\ nombre \notin comp
    THEN dependencias_completadas(Head(ts)[3].dependencias, comp)
    ELSE es_ejecutable_filtrada(Tail(ts), comp, nombre)

RECURSIVE es_ejecutable(_, _, _)
\* es_ejecutable: the first tuple of the list with that name decides.
es_ejecutable(ts, comp, nombre) ==
    IF ts = <<>> THEN FALSE
    ELSE IF Head(ts)[3].nombre = nombre
    THEN dependencias_completadas(Head(ts)[3].dependencias, comp)
    ELSE es_ejecutable(Tail(ts), comp, nombre)

-----------------------------------------------------------------------------
(* The inputs the menu loop passes.                                         *)

Entero(v) == [tipo |-> "int", v |-> v]
NoEntero == [tipo |-> "str", v |-> 0]

Nombres == {"A", "B", "C"}

\* The calls of agregar_tarea: <<nombre, prioridad, fecha, dependencias>>.
Solicitudes ==
    { <<"A", Entero(2), F0105, <<"B", "C">> >>,
      <<"A", Entero(1), F0110, <<>> >>,
      <<"B", Entero(2), F0105, <<>> >>,
      <<"B", Entero(1), F0105, <<>> >>,
      <<"C", Entero(1), F15, <<>> >>,
      <<"C", Entero(2), F0110, <<>> >>,
      <<"B", Entero(-1), F0105, <<>> >>,
      <<"B", NoEntero, F0105, <<>> >>,
      <<"C", Entero(1), F1340, <<>> >>,
      <<"C", Entero(0), F0230, <<>> >> }

Criterios == {"prioridad", "fecha", "nombre"}

-----------------------------------------------------------------------------
(* The process: menu() builds one GestorTareas and calls its methods.       *)

Llamada(op, arg, val, err) == [op |-> op, arg |-> arg, val |-> val, err |-> err]

Init ==
    /\ archivo = <<>>
    /\ tareas = cargar_datos(<<>>).tareas
    /\ tareas_completadas = cargar_datos(<<>>).completadas
    /\ proc = "running"
    /\ ret = Llamada("cargar_datos", <<>>, <<>>, "")
    /\ hist_completadas = {}
    /\ hist_agregadas = {}

\* A new run of the program: GestorTareas() loads the file.  The run before
\* ended by option 6 or by an uncaught exception.
Reinicio ==
    /\ tareas' = cargar_datos(archivo).tareas
    /\ tareas_completadas' = cargar_datos(archivo).completadas
    /\ proc' = "running"
    /\ ret' = Llamada("cargar_datos", <<>>, <<>>, "")
    /\ UNCHANGED <<archivo, hist_completadas, hist_agregadas>>

\* Option 1, with a call drawn from S on a list shorter than max.  menu()
\* catches ValueError only: a TypeError ends the process.
AgregarTareaDe(S, max) ==
    /\ proc = "running"
    /\ Len(tareas) < max
    /\ \E s \in S :
         LET r == agregar_tarea(tareas, tareas_completadas, archivo,
                                s[1], s[2], s[3], s[4])
         IN  /\ tareas' = r.tareas
             /\ archivo' = r.archivo
             /\ proc' = IF r.err = "TypeError" THEN "crashed" ELSE "running"
             /\ ret' = Llamada("agregar_tarea", s, <<>>, r.err)
             /\ hist_agregadas' = IF r.err = "" THEN hist_agregadas \cup {<<s[1], s[4]>>}
                                  ELSE hist_agregadas
    /\ UNCHANGED <<tareas_completadas, hist_completadas>>

AgregarTarea == AgregarTareaDe(Solicitudes, MaxTareas)

\* Option 2.
ListarTareas ==
    /\ proc = "running"
    /\ \E c \in Criterios :
         LET r == listar_tareas(tareas, tareas_completadas, c)
         IN  ret' = Llamada("listar_tareas", <<c>>, r.val, r.err)
    /\ UNCHANGED <<tareas, tareas_completadas, archivo, proc,
                   hist_completadas, hist_agregadas>>

\* Option 3, with a name drawn from N.
CompletarTareaDe(N) ==
    /\ proc = "running"
    /\ \E n \in N :
         LET r == completar_tarea(tareas, tareas_completadas, archivo, n)
         IN  /\ tareas_completadas' = r.completadas
             /\ archivo' = r.archivo
             /\ ret' = Llamada("completar_tarea", <<n>>, <<r.val>>, "")
             /\ hist_completadas' = hist_completadas \cup {n}
    /\ UNCHANGED <<tareas, proc, hist_agregadas>>

CompletarTarea == CompletarTareaDe(Nombres)

\* Option 4.  A TypeError out of heappop is not caught either.
ObtenerSiguienteTarea ==
    /\ proc = "running"
    /\ LET r == obtener_siguiente_tarea(tareas, tareas_completadas)
       IN  /\ tareas' = r.tareas
           /\ proc' = IF r.err = "TypeError" THEN "crashed" ELSE "running"
           /\ ret' = Llamada("obtener_siguiente_tarea", <<>>, r.val, r.err)
    /\ UNCHANGED <<tareas_completadas, archivo, hist_completadas, hist_agregadas>>

\* Option 5, with a name drawn from N.
EsEjecutableDe(N) ==
    /\ proc = "running"
    /\ \E n \in N :
         ret' = Llamada("es_ejecutable", <<n>>,
                        <<es_ejecutable(tareas, tareas_completadas, n)>>, "")
    /\ UNCHANGED <<tareas, tareas_completadas, archivo, proc,
                   hist_completadas, hist_agregadas>>

EsEjecutable == EsEjecutableDe(Nombres)

Next ==
    \/ Reinicio
    \/ AgregarTarea
    \/ ListarTareas
    \/ CompletarTarea
    \/ ObtenerSiguienteTarea
    \/ EsEjecutable

\* The calls of the two-task scenario: a report to write and its review.
SolicitudInforme == <<"Write report", Entero(5), F0110, <<>> >>

SolicitudRevision == <<"Review", Entero(3), F0105, <<"Write report">> >>

SolicitudesEscenario == {SolicitudInforme, SolicitudRevision}

NombresEscenario == {"Write report", "Review"}

\* Bound on len(self.tareas) in the scenario.
MaxEscenario == 2

AgregarEscenario == AgregarTareaDe(SolicitudesEscenario, MaxEscenario)

CompletarEscenario == CompletarTareaDe(NombresEscenario)

EsEjecutableEscenario == EsEjecutableDe(NombresEscenario)

\* The menu loop called with the scenario's tasks and names only.
NextEscenario ==
    \/ Reinicio
    \/ AgregarEscenario
    \/ ListarTareas
    \/ CompletarEscenario
    \/ ObtenerSiguienteTarea
    \/ EsEjecutableEscenario

SpecEscenario == Init /\ [][NextEscenario]_vars

\* The calls of Solicitudes that pass both checks of agregar_tarea.
SolicitudesValidas ==
    {s \in Solicitudes :
        s[2].tipo = "int" /\ s[2].v >= 0 /\ strptime_de[s[3]].ok}

\* Bound on len(self.tareas) where the heap needs a third level.
MaxMonticulo == 4

AgregarValida == AgregarTareaDe(SolicitudesValidas, MaxMonticulo)

\* The menu loop restricted to the calls that change the store, and restarts.
NextMonticulo ==
    \/ Reinicio
    \/ AgregarValida
    \/ CompletarTarea
    \/ ObtenerSiguienteTarea

SpecMonticulo == Init /\ [][NextMonticulo]_vars

Spec == Init /\ [][Next]_vars

-----------------------------------------------------------------------------
(* What the claims speak of, stated without the methods above.              *)

\* The positions of pending whose name is not completed.
NoCompletadas == {i \in 1..Len(tareas) : tareas[i][3].nombre \notin tareas_completadas}

\* A non-negative integer priority and a date that parses as YYYY-MM-DD.
EntradaValida(s) ==
    /\ s[2].tipo = "int"
    /\ s[2].v >= 0
    /\ s[3] \in {F0105, F0110, F15}

\* The task a valid call of agregar_tarea stores: the date in YYYY-MM-DD.
TareaNueva(s) ==
    [nombre |-> s[1],
     prioridad |-> s[2].v,
     fecha_vencimiento |-> IF s[3] = F15 THEN F0105 ELSE s[3],
     dependencias |-> s[4]]

\* The file holds every entry of pending, in order, and the completed set.
ArchivoAlDia ==
    /\ archivo # <<>>
    /\ Len(archivo[1].tareas) = Len(tareas)
    /\ \A i \in 1..Len(tareas) : archivo[1].tareas[i] = tareas[i][3]
    /\ archivo[1].completadas = tareas_completadas

\* The last call added a task, or added a name to completed.
MutacionLograda ==
    \/ ret.op = "agregar_tarea" /\ ret.err = ""
    \/ ret.op = "completar_tarea" /\ ret.val = <<"completada">>

\* l is in descending order of priority.
Descendente(l) ==
    \A i, j \in 1..Len(l) : i < j => l[i].prioridad >= l[j].prioridad

\* t is in l, with no lower priority before it and no higher one after it.
BienColocada(l, t) ==
    \E k \in 1..Len(l) :
        /\ l[k] = t
        /\ \A j \in 1..Len(l) : j < k => l[j].prioridad >= t.prioridad
        /\ \A j \in 1..Len(l) : j > k => l[j].prioridad <= t.prioridad

PorPrioridad == listar_tareas(tareas, tareas_completadas, "prioridad").val

PorFecha == listar_tareas(tareas, tareas_completadas, "fecha").val

-----------------------------------------------------------------------------
\* C1: obtener_siguiente_tarea returns an entry of pending whose name is not
\* completed and whose priority is maximal among those, None exactly when
\* there is no such entry, and the entry returned is still in pending.
C1_SiguienteEsMaxima ==
    ret.op = "obtener_siguiente_tarea" =>
        /\ ret.err = ""
        /\ (ret.val = <<>>) <=> (NoCompletadas = {})
        /\ ret.val # <<>> =>
             \E i \in NoCompletadas :
                 /\ tareas[i][3] = ret.val[1]
                 /\ \A j \in NoCompletadas :
                        tareas[i][3].prioridad >= tareas[j][3].prioridad

\* C2: once completar_tarea(X) has been called, no later listing (either
\* sort key) holds a task named X and obtener_siguiente_tarea never returns
\* one, also after the name is added again and after restarts.
C2_LazyDeletion ==
    \A x \in hist_completadas :
        /\ \A i \in 1..Len(PorPrioridad) : PorPrioridad[i].nombre # x
        /\ \A i \in 1..Len(PorFecha) : PorFecha[i].nombre # x
        /\ ret.op \in {"obtener_siguiente_tarea", "listar_tareas"} =>
               \A i \in 1..Len(ret.val) : ret.val[i].nombre # x

\* A was completed, is in pending all the same, and the scan returned a task.
C2_Witness ==
    /\ "A" \in hist_completadas
    /\ \E i \in 1..Len(tareas) : tareas[i][3].nombre = "A"
    /\ ret.op = "obtener_siguiente_tarea"
    /\ ret.val # <<>>

\* C3 as stated: after agregar_tarea with valid inputs, the priority listing
\* holds the new task, correctly placed.
C3_NuevaEnLista ==
    (ret.op = "agregar_tarea" /\ EntradaValida(ret.arg)) =>
        BienColocada(PorPrioridad, TareaNueva(ret.arg))

\* C3 amended: after agregar_tarea with valid inputs, the priority listing is
\* in descending order and holds the new task, correctly placed, exactly when
\* the task's name is not in completed.
C3_NuevaEnListaSiPendiente ==
    (ret.op = "agregar_tarea" /\ EntradaValida(ret.arg)) =>
        /\ Descendente(PorPrioridad)
        /\ ret.arg[1] \notin tareas_completadas =>
               BienColocada(PorPrioridad, TareaNueva(ret.arg))
        /\ ret.arg[1] \in tareas_completadas =>
               \A i \in 1..Len(PorPrioridad) : PorPrioridad[i].nombre # ret.arg[1]

\* The new task is listed between two others.
C3_Witness ==
    /\ ret.op = "agregar_tarea"
    /\ ret.err = ""
    /\ ret.arg[1] \notin tareas_completadas
    /\ \E k \in 2..(Len(PorPrioridad) - 1) :
           /\ PorPrioridad[k] = TareaNueva(ret.arg)
           /\ PorPrioridad[k - 1].prioridad > PorPrioridad[k + 1].prioridad

\* C4 as stated: between operations the file's task list is pending and its
\* completed list is the completed set.
C4_ArchivoIgualMemoria ==
    proc = "running" =>
        IF archivo = <<>> THEN tareas = <<>> /\ tareas_completadas = {}
        ELSE ArchivoAlDia

\* C4 amended: the file is pending and completed right after every add that
\* succeeds and every completion that adds a name; at all times the file's
\* completed list is the completed set, and while the process runs every
\* entry of pending is in the file (which may still hold pruned entries).
C4_ArchivoTrasMutacion ==
    /\ MutacionLograda => ArchivoAlDia
    /\ IF archivo = <<>> THEN tareas_completadas = {}
       ELSE archivo[1].completadas = tareas_completadas
    /\ proc = "running" =>
           \A i \in 1..Len(tareas) :
               /\ archivo # <<>>
               /\ \E j \in 1..Len(archivo[1].tareas) : archivo[1].tareas[j] = tareas[i][3]

\* A second name was completed, and persisted, on a store that holds tasks.
C4_Witness ==
    /\ ret.op = "completar_tarea"
    /\ ret.val = <<"completada">>
    /\ tareas # <<>>
    /\ Cardinality(tareas_completadas) >= 2

\* C5: agregar_tarea with a priority that is not an integer or is negative,
\* or with a date that does not parse, raises the validation error and
\* leaves pending, completed and the file as they were.
C5_RechazoSinCambio ==
    [][(ret'.op = "agregar_tarea" /\ ~EntradaValida(ret'.arg)) =>
           (ret'.err = "ValueError" /\ UNCHANGED store)]_vars

\* A call with an impossible date was rejected on a store that holds tasks.
C5_Witness ==
    /\ ret.op = "agregar_tarea"
    /\ ret.arg[3] = F1340
    /\ ret.err = "ValueError"
    /\ tareas # <<>>

\* C6: agregar_tarea with a non-negative integer priority and a valid date
\* always succeeds, whatever pending holds: it raises nothing, the process
\* goes on, and the file holds the new pending.
C6_AgregarValidaLogra ==
    (ret.op = "agregar_tarea" /\ EntradaValida(ret.arg)) =>
        /\ ret.err = ""
        /\ proc = "running"
        /\ ArchivoAlDia

\* C7: completar_tarea leaves its name in completed, and a call with a name
\* that is already there reports it and changes nothing: not completed, not
\* pending, not the file.
C7_CompletarIdempotente ==
    /\ [](ret.op = "completar_tarea" => ret.arg[1] \in tareas_completadas)
    /\ [][(ret'.op = "completar_tarea" /\ ret'.arg[1] \in tareas_completadas) =>
              (ret'.val = <<"ya_completada">> /\ UNCHANGED store)]_vars

\* A second completion found a file that no longer matches pending, and left it.
C7_Witness ==
    /\ ret.op = "completar_tarea"
    /\ ret.val = <<"ya_completada">>
    /\ archivo # <<>>
    /\ Len(archivo[1].tareas) > Len(tareas)

\* C8 as stated: once A was added with dependencies [B, C] (and no other
\* task was ever added under the name A), es_ejecutable(A) is true exactly
\* when B and C are both in completed, in every later state.
C8_EjecutableSiDependencias ==
    (/\ <<"A", <<"B", "C">> >> \in hist_agregadas
     /\ <<"A", <<>> >> \notin hist_agregadas
     /\ proc = "running") =>
        (es_ejecutable(tareas, tareas_completadas, "A")
            <=> {"B", "C"} \subseteq tareas_completadas)

\* The first position of pending that holds a task named n (0 when none).
PrimeraConNombre(n) ==
    IF \E i \in 1..Len(tareas) : tareas[i][3].nombre = n
    THEN CHOOSE i \in 1..Len(tareas) :
             /\ tareas[i][3].nombre = n
             /\ \A j \in 1..(i - 1) : tareas[j][3].nombre # n
    ELSE 0

\* C8 amended: while the first entry named A in pending is the task added
\* with [B, C], es_ejecutable(A) is true exactly when B and C are both in
\* completed; no name ever leaves completed; and with no entry named A in
\* pending (A was completed and pruned) es_ejecutable(A) is false.
C8_EjecutableMientrasPendiente ==
    /\ LET k == PrimeraConNombre("A")
       IN  IF k = 0 THEN ~es_ejecutable(tareas, tareas_completadas, "A")
           ELSE tareas[k][3].dependencias = <<"B", "C">> =>
                    (es_ejecutable(tareas, tareas_completadas, "A")
                        <=> {"B", "C"} \subseteq tareas_completadas)
    /\ hist_completadas = tareas_completadas

\* A is in pending with [B, C], both are completed, es_ejecutable(A) said True.
C8_Witness ==
    /\ PrimeraConNombre("A") # 0
    /\ tareas[PrimeraConNombre("A")][3].dependencias = <<"B", "C">>
    /\ {"B", "C"} \subseteq tareas_completadas
    /\ ret.op = "es_ejecutable"
    /\ ret.arg = <<"A">>
    /\ ret.val = <<TRUE>>

\* C9: es_ejecutable(name) is False when no entry of pending has the name;
\* otherwise the first entry with the name in storage order decides, its own
\* name completed or not: True iff each of its dependencies is in completed.
\* The call changes nothing.
C9_EjecutablePrimeraCoincidencia ==
    /\ [](ret.op = "es_ejecutable" =>
            LET k == PrimeraConNombre(ret.arg[1])
            IN  ret.val[1] =
                    (/\ k # 0
                     /\ \A d \in 1..Len(tareas[k][3].dependencias) :
                            tareas[k][3].dependencias[d] \in tareas_completadas))
    /\ [][ret'.op = "es_ejecutable" => UNCHANGED <<store, proc>>]_vars

\* The name asked about is completed and twice in pending, with different
\* dependencies; the answer was True.
C9_Witness ==
    /\ ret.op = "es_ejecutable"
    /\ ret.val = <<TRUE>>
    /\ ret.arg[1] \in tareas_completadas
    /\ \E i, j \in 1..Len(tareas) :
           /\ i < j
           /\ tareas[i][3].nombre = ret.arg[1]
           /\ tareas[j][3].nombre = ret.arg[1]
           /\ tareas[i][3].dependencias # tareas[j][3].dependencias

\* C10: right after a successful agregar_tarea or completar_tarea, what
\* guardar_datos writes is what the file holds, and cargar_datos of it gives
\* pending back (same tuples, same order) and the same completed set; a
\* store built with no file has both empty.
C10_IdaYVuelta ==
    /\ MutacionLograda =>
           /\ archivo = guardar_datos(tareas, tareas_completadas)
           /\ cargar_datos(archivo).tareas = tareas
           /\ cargar_datos(archivo).completadas = tareas_completadas
    /\ (ret.op = "cargar_datos" /\ archivo = <<>>) =>
           (tareas = <<>> /\ tareas_completadas = {})

\* An add with a date written 2025-1-5 succeeded on a store with one task
\* and one completed name.
C10_Witness ==
    /\ ret.op = "agregar_tarea"
    /\ ret.err = ""
    /\ ret.arg[3] = F15
    /\ Len(tareas) >= 2
    /\ tareas_completadas # {}

\* How many times e is in the list l.
Veces(l, e) == Cardinality({i \in 1..Len(l) : l[i] = e})

\* C11: completar_tarea, for any name (one that matches no task too), leaves
\* pending as it is; it adds the name to completed and, when the name is
\* new there, persists all of pending with the new set.
C11_CompletarNoQuita ==
    [][ret'.op = "completar_tarea" =>
           /\ tareas' = tareas
           /\ proc' = proc
           /\ tareas_completadas' = tareas_completadas \cup {ret'.arg[1]}
           /\ ret'.arg[1] \notin tareas_completadas => ArchivoAlDia']_vars

\* A task in pending was completed and is still there; so was a name that
\* matches no task.
C11_Witness ==
    /\ ret.op = "completar_tarea"
    /\ ret.val = <<"completada">>
    /\ \E i \in 1..Len(tareas) : tareas[i][3].nombre = ret.arg[1]
    /\ \E n \in tareas_completadas :
           \A i \in 1..Len(archivo[1].tareas) : archivo[1].tareas[i].nombre # n

\* C12: a call of a store method shortens pending only if it is
\* obtener_siguiente_tarea; that call leaves completed alone, adds nothing,
\* keeps every entry whose name is not completed and removes only entries
\* whose name is completed.
C12_SoloObtenerPoda ==
    [][ret'.op # "cargar_datos" =>
           /\ Len(tareas') < Len(tareas) => ret'.op = "obtener_siguiente_tarea"
           /\ ret'.op = "obtener_siguiente_tarea" =>
                  /\ tareas_completadas' = tareas_completadas
                  /\ \A i \in 1..Len(tareas) :
                         LET e == tareas[i]
                         IN  /\ Veces(tareas', e) <= Veces(tareas, e)
                             /\ e[3].nombre \notin tareas_completadas =>
                                    Veces(tareas', e) = Veces(tareas, e)
                  /\ \A i \in 1..Len(tareas') : Veces(tareas, tareas'[i]) > 0]_vars

\* The scan pruned an entry and returned another, with a third left behind.
C12_Witness ==
    /\ ret.op = "obtener_siguiente_tarea"
    /\ ret.val # <<>>
    /\ Len(tareas) >= 2
    /\ Len(archivo[1].tareas) > Len(tareas)

\* The day number of a due date text within January 2025.
DiaDe(texto) == IF texto = F0105 THEN 5 ELSE 10

\* C13: listar_tareas('fecha') returns the entries of pending whose name is
\* not completed, each as often as it is there and nothing else, in
\* ascending order of due date.
C13_ListaPorFecha ==
    (ret.op = "listar_tareas" /\ ret.arg = <<"fecha">>) =>
        /\ ret.err = ""
        /\ Len(ret.val) = Cardinality(NoCompletadas)
        /\ \A i \in NoCompletadas :
               Veces(ret.val, tareas[i][3]) =
                   Cardinality({j \in NoCompletadas : tareas[j][3] = tareas[i][3]})
        /\ \A i, j \in 1..Len(ret.val) :
               i < j => DiaDe(ret.val[i].fecha_vencimiento) <= DiaDe(ret.val[j].fecha_vencimiento)

\* The date listing holds two tasks in an order that is not pending's, and a
\* completed entry of pending is left out.
C13_Witness ==
    /\ ret.op = "listar_tareas"
    /\ ret.arg = <<"fecha">>
    /\ Len(ret.val) = 2
    /\ Len(tareas) = 3
    /\ DiaDe(ret.val[1].fecha_vencimiento) < DiaDe(ret.val[2].fecha_vencimiento)
    /\ \E i, j \in 1..3 : i < j /\ tareas[i][3] = ret.val[2] /\ tareas[j][3] = ret.val[1]

\* C14: listar_tareas changes nothing, whatever the sort key: pending,
\* completed and the file stay as they were; 'prioridad' and 'fecha' return
\* a list, any other key raises the error.
C14_ListarSoloLee ==
    [][ret'.op = "listar_tareas" =>
           /\ UNCHANGED <<store, proc>>
           /\ (ret'.err = "ValueError") <=> (ret'.arg[1] \notin {"prioridad", "fecha"})
           /\ ret'.err \in {"", "ValueError"}]_vars

\* An unknown key was refused on a store whose file lags behind pending.
C14_Witness ==
    /\ ret.op = "listar_tareas"
    /\ ret.arg = <<"nombre">>
    /\ ret.err = "ValueError"
    /\ tareas # <<>>
    /\ Len(archivo[1].tareas) > Len(tareas)

\* The tuples the scenario's two calls put in pending.
TuplaInforme ==
    << -5, <<2025, 1, 10>>,
       [nombre |-> "Write report", prioridad |-> 5,
        fecha_vencimiento |-> F0110, dependencias |-> <<>>] >>

TuplaRevision ==
    << -3, <<2025, 1, 5>>,
       [nombre |-> "Review", prioridad |-> 3,
        fecha_vencimiento |-> F0105, dependencias |-> <<"Write report">>] >>

\* C15: the scenario, step by step.  From the empty store, adding 'Write
\* report' and then 'Review' gives pending [report, review];
\* es_ejecutable('Review') is False there; completar_tarea('Write report')
\* adds the name and leaves pending; es_ejecutable('Review') is then True and
\* obtener_siguiente_tarea returns 'Review', with 'Write report' pruned.
C15_Escenario ==
    /\ [][(/\ tareas = <<>> /\ tareas_completadas = {}
           /\ ret'.op = "agregar_tarea" /\ ret'.arg = SolicitudInforme) =>
              (tareas' = <<TuplaInforme>> /\ ret'.err = "")]_vars
    /\ [][(/\ tareas = <<TuplaInforme>> /\ tareas_completadas = {}
           /\ ret'.op = "agregar_tarea" /\ ret'.arg = SolicitudRevision) =>
              (tareas' = <<TuplaInforme, TuplaRevision>> /\ ret'.err = "")]_vars
    /\ [](( /\ tareas = <<TuplaInforme, TuplaRevision>> /\ tareas_completadas = {}
            /\ ret.op = "es_ejecutable" /\ ret.arg = <<"Review">>) =>
              ret.val = <<FALSE>>)
    /\ [][(/\ tareas = <<TuplaInforme, TuplaRevision>> /\ tareas_completadas = {}
           /\ ret'.op = "completar_tarea" /\ ret'.arg = <<"Write report">>) =>
              (/\ tareas' = tareas
               /\ tareas_completadas' = {"Write report"}
               /\ ret'.val = <<"completada">>)]_vars
    /\ [](( /\ tareas = <<TuplaInforme, TuplaRevision>>
            /\ tareas_completadas = {"Write report"}
            /\ ret.op = "es_ejecutable" /\ ret.arg = <<"Review">>) =>
              ret.val = <<TRUE>>)
    /\ [][(/\ tareas = <<TuplaInforme, TuplaRevision>>
           /\ tareas_completadas = {"Write report"}
           /\ ret'.op = "obtener_siguiente_tarea") =>
              (/\ ret'.val = <<TuplaRevision[3]>>
               /\ ret'.err = ""
               /\ tareas' = <<TuplaRevision>>)]_vars

\* The end of the scenario: 'Review' was returned, pending holds it alone,
\* and the file still lists the report that was pruned.
C15_Witness ==
    /\ ret.op = "obtener_siguiente_tarea"
    /\ ret.val = <<TuplaRevision[3]>>
    /\ tareas = <<TuplaRevision>>
    /\ tareas_completadas = {"Write report"}
    /\ hist_completadas = {"Write report"}
    /\ Len(archivo[1].tareas) = 2
    /\ archivo[1].tareas[1] = TuplaInforme[3]

\* The non-completed entries of pending whose priority is the highest.
MejoresNoCompletadas ==
    {i \in NoCompletadas :
        \A j \in NoCompletadas : tareas[i][3].prioridad >= tareas[j][3].prioridad}

\* C16: when several non-completed entries share the highest priority,
\* obtener_siguiente_tarea returns one of them whose due date is the earliest
\* among them.
C16_DesempatePorFecha ==
    (ret.op = "obtener_siguiente_tarea" /\ Cardinality(MejoresNoCompletadas) >= 2) =>
        /\ ret.err = ""
        /\ ret.val # <<>>
        /\ \E i \in MejoresNoCompletadas :
               /\ tareas[i][3] = ret.val[1]
               /\ \A j \in MejoresNoCompletadas :
                      ~FechaMenor(tareas[j][2], tareas[i][2])

\* The key (-priority, due date) of x is <= that of y.
ClaveMenorIgual(x, y) ==
    \/ x[1] < y[1]
    \/ x[1] = y[1] /\ ~FechaMenor(y[2], x[2])

\* l is a binary min-heap on the key (0-based i, 2i+1, 2i+2 are i, 2i, 2i+1 here).
EsMonticulo(l) ==
    \A i \in 1..Len(l) :
        \A h \in {2 * i, 2 * i + 1} :
            h <= Len(l) => ClaveMenorIgual(l[i], l[h])

\* C17: in every state reached by agregar_tarea, completar_tarea,
\* obtener_siguiente_tarea and restarts, pending is a binary min-heap on the
\* key (-priority, due date).
C17_MonticuloValido == EsMonticulo(tareas)

\* The store a fresh process builds from the file.
Recargado == cargar_datos(archivo)

\* listar_tareas of the in-memory store and of the fresh one.
ListaMemoria(k) == listar_tareas(tareas, tareas_completadas, k).val

ListaArchivo(k) == listar_tareas(Recargado.tareas, Recargado.completadas, k).val

\* obtener_siguiente_tarea of the in-memory store and of the fresh one:
\* the value returned and the exception raised.
SiguienteMemoria ==
    LET r == obtener_siguiente_tarea(tareas, tareas_completadas)
    IN  <<r.val, r.err>>

SiguienteArchivo ==
    LET r == obtener_siguiente_tarea(Recargado.tareas, Recargado.completadas)
    IN  <<r.val, r.err>>

\* The sort key of every position of a listing.
ClavesDe(k, l) ==
    [i \in 1..Len(l) |->
        IF k = "fecha" THEN strptime_de[l[i].fecha_vencimiento].dt ELSE l[i].prioridad]

\* Every task is as many times in a as in b.
MismaBolsa(a, b) ==
    /\ Len(a) = Len(b)
    /\ \A i \in 1..Len(a) : Veces(a, a[i]) = Veces(b, a[i])

\* Every task is at least as many times in b as in a.
BolsaIncluida(a, b) == \A i \in 1..Len(a) : Veces(a, a[i]) <= Veces(b, a[i])

\* C18 as stated, between the operations of a live process: the fresh store
\* built from the file returns the same lists (both sort keys) and the same
\* next task as the in-memory store.
C18_ReinicioTransparente ==
    proc = "running" =>
        /\ \A k \in {"prioridad", "fecha"} : ListaMemoria(k) = ListaArchivo(k)
        /\ SiguienteMemoria = SiguienteArchivo

\* C18 amended: between the operations of a live process the fresh store
\* lists the same tasks with the same multiplicities, with the same sort key
\* at every position (tasks that tie on the key may swap places), and
\* obtener_siguiente_tarea has the same outcome; in the store a TypeError
\* leaves behind, every task the fresh store lists is listed too.
C18_ReinicioMismasTareas ==
    /\ proc = "running" =>
        /\ \A k \in {"prioridad", "fecha"} :
               /\ MismaBolsa(ListaMemoria(k), ListaArchivo(k))
               /\ ClavesDe(k, ListaMemoria(k)) = ClavesDe(k, ListaArchivo(k))
        /\ SiguienteMemoria = SiguienteArchivo
    /\ proc = "crashed" =>
        \A k \in {"prioridad", "fecha"} :
            BolsaIncluida(ListaArchivo(k), ListaMemoria(k))

\* A prune the file has not seen, after which the two stores list two tasks
\* of equal priority in different orders.
C18_Witness ==
    /\ proc = "running"
    /\ archivo # <<>>
    /\ Len(archivo[1].tareas) > Len(tareas)
    /\ ListaMemoria("prioridad") # ListaArchivo("prioridad")
    /\ SiguienteMemoria[1] # <<>>

\* C19: a call of obtener_siguiente_tarea that follows another with nothing
\* in between returns the same result and changes nothing; and in the state
\* a call has returned in, the method applied again returns that result and
\* leaves pending as it is.
C19_ObtenerIdempotente ==
    /\ [][(ret.op = "obtener_siguiente_tarea" /\ ret'.op = "obtener_siguiente_tarea") =>
              (ret' = ret /\ UNCHANGED <<store, proc>>)]_vars
    /\ []((ret.op = "obtener_siguiente_tarea" /\ ret.err = "") =>
              obtener_siguiente_tarea(tareas, tareas_completadas) =
                  [tareas |-> tareas, val |-> ret.val, err |-> ""])

\* A first call has pruned two entries and returned the task now at index 0;
\* the process is alive and can call again.
C19_Witness ==
    /\ proc = "running"
    /\ ret.op = "obtener_siguiente_tarea"
    /\ tareas # <<>>
    /\ ret.val # <<>>
    /\ ret.val[1] = tareas[1][3]
    /\ archivo # <<>>
    /\ Len(archivo[1].tareas) = Len(tareas) + 2

\* C20: every call of obtener_siguiente_tarea on a pending of n entries ends
\* after at most n removals, either returning a non-completed entry or
\* returning None with pending empty.
C20_ObtenerTermina ==
    [][ret'.op = "obtener_siguiente_tarea" =>
        /\ ret'.err = ""
        /\ Len(tareas) - Len(tareas') \in 0..Len(tareas)
        /\ ret'.val # <<>> =>
               /\ ret'.val[1].nombre \notin tareas_completadas'
               /\ tareas' # <<>>
               /\ tareas'[1][3] = ret'.val[1]
        /\ ret'.val = <<>> => tareas' = <<>>]_vars

====
